---------------------------- MODULE Spec2Model ----------------------------
(***************************************************************************)
(* A model of binary-source (src/src/main.rs): the pipeline                *)
(* metadata -> ctx -> compile -> (compress) -> embed -> save_binary.       *)
(*                                                                         *)
(* Strings are sequences of one-character strings, byte strings are        *)
(* sequences of numbers in 0..255, and a 32-bit word is a sequence of 32   *)
(* bits, most significant first.                                           *)
(***************************************************************************)
EXTENDS Integers, Sequences, FiniteSets, TLC

(***************************************************************************)
(* Bounds of the model.                                                    *)
(***************************************************************************)
\* The longest list of targets a root package carries.
MaxTargets == 2
\* The longest artifact, in bytes, the build or the compressor leaves.
MaxBinLen == 3

(***************************************************************************)
(* Text helpers.                                                           *)
(***************************************************************************)
\* str::find: the least index at which pat occurs in s, 0 when it does not.
Find(s, pat) ==
    LET hits == {i \in 1..(Len(s) - Len(pat) + 1) : SubSeq(s, i, i + Len(pat) - 1) = pat}
    IN IF hits = {} THEN 0 ELSE CHOOSE i \in hits : \A j \in hits : i <= j

\* The first occurrence of the pattern replaced, nothing when there is none:
\* str::replacen(pat, to, 1) with a non-empty pattern.
ReplaceFirst(s, pat, to) ==
    LET i == Find(s, pat)
    IN IF i = 0 THEN s
       ELSE SubSeq(s, 1, i - 1) \o to \o SubSeq(s, i + Len(pat), Len(s))

\* The characters str::trim_end removes (those of the model's alphabet).
WhiteSpace == {" ", "\n", "\t", "\r"}

RECURSIVE TrimEnd(_)
\* str::trim_end: trailing white space removed.
TrimEnd(s) ==
    IF s # <<>> /\ s[Len(s)] \in WhiteSpace THEN TrimEnd(SubSeq(s, 1, Len(s) - 1)) ELSE s

RECURSIVE Split(_, _)
\* str::split(sep): the pieces between the separators, in order; a string
\* without the separator is its own single piece.
Split(s, sep) ==
    LET i == Find(s, <<sep>>)
    IN IF i = 0 THEN <<s>>
       ELSE <<SubSeq(s, 1, i - 1)>> \o Split(SubSeq(s, i + 1, Len(s)), sep)

(***************************************************************************)
(* data_encoding: BASE64, BASE64_NOPAD and HEXUPPER.                       *)
(***************************************************************************)
\* The 64 symbols of the standard base64 alphabet, by value.
Base64Symbols ==
    <<"A", "B", "C", "D", "E", "F", "G", "H", "I", "J", "K", "L", "M", "N", "O", "P",
      "Q", "R", "S", "T", "U", "V", "W", "X", "Y", "Z", "a", "b", "c", "d", "e", "f",
      "g", "h", "i", "j", "k", "l", "m", "n", "o", "p", "q", "r", "s", "t", "u", "v",
      "w", "x", "y", "z", "0", "1", "2", "3", "4", "5", "6", "7", "8", "9", "+", "/">>

HexSymbols ==
    <<"0", "1", "2", "3", "4", "5", "6", "7", "8", "9", "A", "B", "C", "D", "E", "F">>

\* The three bytes of a full group as four 6-bit values.
SextetsOf3(a, b, c) ==
    <<a \div 4, (a % 4) * 16 + b \div 16, (b % 16) * 4 + c \div 64, c % 64>>

RECURSIVE Base64Body(_)
\* The symbols of the encoding without padding: four per full group of three
\* bytes, then two for one left-over byte or three for two.
Base64Body(bytes) ==
    IF Len(bytes) = 0 THEN <<>>
    ELSE IF Len(bytes) = 1 THEN
        <<Base64Symbols[bytes[1] \div 4 + 1], Base64Symbols[(bytes[1] % 4) * 16 + 1]>>
    ELSE IF Len(bytes) = 2 THEN
        <<Base64Symbols[bytes[1] \div 4 + 1],
          Base64Symbols[(bytes[1] % 4) * 16 + bytes[2] \div 16 + 1],
          Base64Symbols[(bytes[2] % 16) * 4 + 1]>>
    ELSE LET g == SextetsOf3(bytes[1], bytes[2], bytes[3])
         IN <<Base64Symbols[g[1] + 1], Base64Symbols[g[2] + 1],
              Base64Symbols[g[3] + 1], Base64Symbols[g[4] + 1]>>
            \o Base64Body(SubSeq(bytes, 4, Len(bytes)))

\* BASE64_NOPAD.encode
Base64NoPadEncode(bytes) == Base64Body(bytes)

\* BASE64.encode: the body padded with "=" to a multiple of four symbols.
Base64Encode(bytes) ==
    Base64Body(bytes) \o (IF Len(bytes) % 3 = 1 THEN <<"=", "=">>
                          ELSE IF Len(bytes) % 3 = 2 THEN <<"=">> ELSE <<>>)

\* HEXUPPER.encode: two upper-case hexadecimal digits per byte.
HexUpperEncode(bytes) ==
    [i \in 1..(2 * Len(bytes)) |->
        IF i % 2 = 1 THEN HexSymbols[bytes[(i + 1) \div 2] \div 16 + 1]
                     ELSE HexSymbols[(bytes[i \div 2] % 16) + 1]] \o <<>>

(***************************************************************************)
(* sha2::Sha256 (FIPS 180-4).  A word is a sequence of 32 bits, most       *)
(* significant first.                                                      *)
(***************************************************************************)
\* The word whose upper and lower 16 bits are the numbers hi and lo.
Word(hi, lo) ==
    [i \in 1..32 |-> IF i <= 16 THEN (hi \div 2^(16 - i)) % 2
                                ELSE (lo \div 2^(32 - i)) % 2] \o <<>>

\* The number that the 16 bits of w after bit k spell.
Half(w, k) ==
    w[k + 1] * 32768 + (w[k + 2] * 16384 + (w[k + 3] * 8192 + (
    w[k + 4] * 4096 + (w[k + 5] * 2048 + (w[k + 6] * 1024 + (
    w[k + 7] * 512 + (w[k + 8] * 256 + (w[k + 9] * 128 + (
    w[k + 10] * 64 + (w[k + 11] * 32 + (w[k + 12] * 16 + (
    w[k + 13] * 8 + (w[k + 14] * 4 + (w[k + 15] * 2 + (w[k + 16])))))))))))))))

Xor(a, b) == [i \in 1..32 |-> (a[i] + b[i]) % 2] \o <<>>
And(a, b) == [i \in 1..32 |-> a[i] * b[i]] \o <<>>
Not(a) == [i \in 1..32 |-> 1 - a[i]] \o <<>>
RotR(a, n) == [i \in 1..32 |-> a[((i - 1 - n) % 32) + 1]] \o <<>>
ShR(a, n) == [i \in 1..32 |-> IF i - n >= 1 THEN a[i - n] ELSE 0] \o <<>>

\* The word of the sums hi and lo of two upper and two lower halves, the carry
\* of the lower sum going into the upper one and that of the upper one dropped.
Carry(hi, lo) == Word((hi + lo \div 65536) % 65536, lo % 65536)

\* u32::wrapping_add: addition modulo 2^32, by halves.
Add(a, b) == Carry(Half(a, 0) + Half(b, 0), Half(a, 16) + Half(b, 16))

Ch(x, y, z) == Xor(And(x, y), And(Not(x), z))
Maj(x, y, z) == Xor(Xor(And(x, y), And(x, z)), And(y, z))
BigSigma0(x) == Xor(Xor(RotR(x, 2), RotR(x, 13)), RotR(x, 22))
BigSigma1(x) == Xor(Xor(RotR(x, 6), RotR(x, 11)), RotR(x, 25))
SmallSigma0(x) == Xor(Xor(RotR(x, 7), RotR(x, 18)), ShR(x, 3))
SmallSigma1(x) == Xor(Xor(RotR(x, 17), RotR(x, 19)), ShR(x, 10))

\* The round constants, as (upper half, lower half).
Sha256K ==
    <<<<17034, 12184>>, <<28983, 17553>>, <<46528, 64463>>, <<59829, 56229>>, <<14678, 49755>>,
      <<23025, 4593>>, <<37439, 33444>>, <<43804, 24277>>, <<55303, 43672>>, <<4739, 23297>>,
      <<9265, 34238>>, <<21772, 32195>>, <<29374, 23924>>, <<32990, 45566>>, <<39900, 1703>>,
      <<49563, 61812>>, <<58523, 27073>>, <<61374, 18310>>, <<4033, 40390>>, <<9228, 41420>>,
      <<11753, 11375>>, <<19060, 33962>>, <<23728, 43484>>, <<30457, 35034>>, <<38974, 20818>>,
      <<43057, 50797>>, <<45059, 10184>>, <<48985, 32711>>, <<50912, 3059>>, <<54695, 37191>>,
      <<1738, 25425>>, <<5161, 10599>>, <<10167, 2693>>, <<11803, 8504>>, <<19756, 28156>>,
      <<21304, 3347>>, <<25866, 29524>>, <<30314, 2747>>, <<33218, 51502>>, <<37490, 11397>>,
      <<41663, 59553>>, <<43034, 26187>>, <<49739, 35696>>, <<51052, 20899>>, <<53650, 59417>>,
      <<54937, 1572>>, <<62478, 13701>>, <<4202, 41072>>, <<6564, 49430>>, <<7735, 27656>>,
      <<10056, 30540>>, <<13488, 48309>>, <<14620, 3251>>, <<20184, 43594>>, <<23452, 51791>>,
      <<26670, 28659>>, <<29839, 33518>>, <<30885, 25455>>, <<33992, 30740>>, <<36039, 520>>,
      <<37054, 65530>>, <<42064, 27883>>, <<48889, 41975>>, <<50801, 30962>>>>

\* The initial hash value, as (upper half, lower half).
Sha256H0 ==
    <<<<27145, 58983>>, <<47975, 44677>>, <<15470, 62322>>, <<42319, 62778>>, <<20750, 21119>>,
      <<39685, 26764>>, <<8067, 55723>>, <<23520, 52505>>>>

\* The message padded to whole 64-byte blocks: 0x80, zeros, and the length in
\* bits as a 64-bit big-endian number.
Sha256Pad(bytes) ==
    LET n == Len(bytes)
        zeros == (55 - n) % 64
        bits == 8 * n
    IN bytes \o <<128>> \o [i \in 1..zeros |-> 0] \o <<0, 0, 0, 0>>
       \o <<(bits \div 16777216) % 256, (bits \div 65536) % 256,
            (bits \div 256) % 256, bits % 256>>

\* The message schedule w (t - 1 words so far) with its next word.
Sha256Extend(w) ==
    LET t == Len(w) + 1
    IN Append(w, Add(Add(SmallSigma1(w[t - 2]), w[t - 7]),
                     Add(SmallSigma0(w[t - 15]), w[t - 16])))

\* The message schedule w with its next eight words.
Sha256Extend8(w) ==
    IF Len(w) < 16 THEN w
    ELSE LET sch[n \in 0..8] == IF n = 0 THEN w ELSE Sha256Extend(sch[n - 1])
         IN sch[8]

\* The 64 words of the message schedule, from its first 16.
Sha256Schedule(w16) ==
    Sha256Extend8(Sha256Extend8(Sha256Extend8(
        Sha256Extend8(Sha256Extend8(Sha256Extend8(w16))))))

\* The working variables v = <<a, b, ..., h>> shifted by one, with the two
\* temporaries t1 and t2 of the round added in.
Sha256Shift(v, t1, t2) ==
    <<Add(t1, t2), v[1], v[2], v[3], Add(v[4], t1), v[5], v[6], v[7]>>

\* Round t applied to the working variables v = <<a, b, ..., h>>.
Sha256Round(v, w, t) ==
    IF Len(v) # 8 THEN v
    ELSE Sha256Shift(v,
             Add(Add(Add(v[8], BigSigma1(v[5])), Ch(v[5], v[6], v[7])),
                 Add(Word(Sha256K[t][1], Sha256K[t][2]), w[t])),
             Add(BigSigma0(v[1]), Maj(v[1], v[2], v[3])))

\* Rounds t0 + 1 .. t0 + 8 applied to the working variables v.
Sha256Round8(v, w, t0) ==
    IF Len(v) # 8 THEN v
    ELSE LET st[t \in 0..8] == IF t = 0 THEN v ELSE Sha256Round(st[t - 1], w, t0 + t)
         IN st[8]

\* The 64 rounds applied to the working variables v.
Sha256Rounds(v, w) ==
    Sha256Round8(Sha256Round8(Sha256Round8(Sha256Round8(
        Sha256Round8(Sha256Round8(Sha256Round8(Sha256Round8(v, w, 0),
            w, 8), w, 16), w, 24), w, 32), w, 40), w, 48), w, 56)

\* The 16 big-endian words of the 64-byte block m.
Sha256Words(m) ==
    [i \in 1..16 |-> Word(m[4 * i - 3] * 256 + m[4 * i - 2],
                          m[4 * i - 1] * 256 + m[4 * i])] \o <<>>

\* The hash value h with the working variables v added in, word by word.
Sha256Feed(h, v) == [i \in 1..8 |-> Add(h[i], v[i])] \o <<>>

\* The hash value h after one 64-byte block m.
Sha256Compress(h, m) ==
    Sha256Feed(h, Sha256Rounds(h, Sha256Schedule(Sha256Words(m))))

\* The hash value after all the 64-byte blocks of the padded message m.
Sha256Blocks(m) ==
    LET hs[k \in 0..(Len(m) \div 64)] ==
            IF k = 0 THEN [i \in 1..8 |-> Word(Sha256H0[i][1], Sha256H0[i][2])] \o <<>>
            ELSE Sha256Compress(hs[k - 1], SubSeq(m, 64 * k - 63, 64 * k))
    IN hs[Len(m) \div 64]

\* The 32 big-endian bytes of the hash value h.
Sha256Bytes(h) ==
    [i \in 1..32 |->
        IF i % 2 = 1
        THEN Half(h[(i - 1) \div 4 + 1], 16 * (((i - 1) % 4) \div 2)) \div 256
        ELSE Half(h[(i - 1) \div 4 + 1], 16 * (((i - 1) % 4) \div 2)) % 256] \o <<>>

\* sha2::Sha256::digest: the 32 bytes of the digest.
Sha256Digest(bytes) == Sha256Bytes(Sha256Blocks(Sha256Pad(bytes)))

(***************************************************************************)
(* The string literals of main.rs.                                         *)
(***************************************************************************)
\* "{{BINARY}}"
TokenBinary == <<"{", "{", "B", "I", "N", "A", "R", "Y", "}", "}">>

\* "{{NAME}}"
TokenName == <<"{", "{", "N", "A", "M", "E", "}", "}">>

\* "{{SOURCE_CODE}}"
TokenSourceCode ==
    <<"{", "{", "S", "O", "U", "R", "C", "E", "_", "C", "O", "D", "E", "}",
      "}">>

\* "SOURCE CODE NOT FOUND"
SourceNotFound ==
    <<"S", "O", "U", "R", "C", "E", " ", "C", "O", "D", "E", " ", "N", "O",
      "T", " ", "F", "O", "U", "N", "D">>

\* "bin"
BinPrefix == <<"b", "i", "n">>

\* ".exe"
ExeExt == <<".", "e", "x", "e">>

\* "windows"
Windows == <<"w", "i", "n", "d", "o", "w", "s">>

\* "release"
Release == <<"r", "e", "l", "e", "a", "s", "e">>

\* "cross"
Cross == <<"c", "r", "o", "s", "s">>

\* "cargo"
Cargo == <<"c", "a", "r", "g", "o">>

\* "upx"
Upx == <<"u", "p", "x">>

\* "+nightly"
ArgNightly == <<"+", "n", "i", "g", "h", "t", "l", "y">>

\* "build"
ArgBuild == <<"b", "u", "i", "l", "d">>

\* "--target="
ArgTargetEq == <<"-", "-", "t", "a", "r", "g", "e", "t", "=">>

\* "-Zbuild-std=std,panic_abort"
ArgBuildStd ==
    <<"-", "Z", "b", "u", "i", "l", "d", "-", "s", "t", "d", "=", "s", "t",
      "d", ",", "p", "a", "n", "i", "c", "_", "a", "b", "o", "r", "t">>

\* "-Zbuild-std-features=panic_immediate_abort"
ArgBuildStdFeatures ==
    <<"-", "Z", "b", "u", "i", "l", "d", "-", "s", "t", "d", "-", "f", "e",
      "a", "t", "u", "r", "e", "s", "=", "p", "a", "n", "i", "c", "_", "i",
      "m", "m", "e", "d", "i", "a", "t", "e", "_", "a", "b", "o", "r", "t">>

\* "--config=profile.release.panic="abort""
ArgPanicAbort ==
    <<"-", "-", "c", "o", "n", "f", "i", "g", "=", "p", "r", "o", "f", "i",
      "l", "e", ".", "r", "e", "l", "e", "a", "s", "e", ".", "p", "a", "n",
      "i", "c", "=", "\"", "a", "b", "o", "r", "t", "\"">>

\* "--config=profile.release.opt-level="s""
ArgOptLevelS ==
    <<"-", "-", "c", "o", "n", "f", "i", "g", "=", "p", "r", "o", "f", "i",
      "l", "e", ".", "r", "e", "l", "e", "a", "s", "e", ".", "o", "p", "t",
      "-", "l", "e", "v", "e", "l", "=", "\"", "s", "\"">>

\* "--config=profile.release.codegen-units=1"
ArgCodegenUnits ==
    <<"-", "-", "c", "o", "n", "f", "i", "g", "=", "p", "r", "o", "f", "i",
      "l", "e", ".", "r", "e", "l", "e", "a", "s", "e", ".", "c", "o", "d",
      "e", "g", "e", "n", "-", "u", "n", "i", "t", "s", "=", "1">>

\* "--config=profile.release.lto=true"
ArgLto ==
    <<"-", "-", "c", "o", "n", "f", "i", "g", "=", "p", "r", "o", "f", "i",
      "l", "e", ".", "r", "e", "l", "e", "a", "s", "e", ".", "l", "t", "o",
      "=", "t", "r", "u", "e">>

\* "--config=profile.release.strip=true"
ArgStrip ==
    <<"-", "-", "c", "o", "n", "f", "i", "g", "=", "p", "r", "o", "f", "i",
      "l", "e", ".", "r", "e", "l", "e", "a", "s", "e", ".", "s", "t", "r",
      "i", "p", "=", "t", "r", "u", "e">>

\* "--release"
ArgRelease == <<"-", "-", "r", "e", "l", "e", "a", "s", "e">>

\* "--bin"
ArgBin == <<"-", "-", "b", "i", "n">>

\* "--best"
ArgBest == <<"-", "-", "b", "e", "s", "t">>

\* "--lzma"
ArgLzma == <<"-", "-", "l", "z", "m", "a">>

\* "-qq"
ArgQuiet == <<"-", "q", "q">>


(***************************************************************************)
(* Paths (camino::Utf8PathBuf).                                            *)
(***************************************************************************)
\* Utf8PathBuf::join: an absolute component replaces the path; otherwise it
\* is appended after one separator.
Join(base, comp) ==
    IF comp # <<>> /\ comp[1] = "/" THEN comp
    ELSE IF base = <<>> THEN comp
    ELSE IF base[Len(base)] = "/" THEN base \o comp
    ELSE base \o <<"/">> \o comp

\* Utf8Path::parent of a path with a parent: the path without its last
\* component.
Parent(path) ==
    LET slashes == {i \in 1..Len(path) : path[i] = "/"}
        last == CHOOSE i \in slashes : \A j \in slashes : j <= i
    IN IF slashes = {} THEN <<>>
       ELSE IF last = 1 THEN <<"/">>
       ELSE SubSeq(path, 1, last - 1)


(***************************************************************************)
(* Option and the records of the program.                                  *)
(*   Option<T>: <<>> is None and <<x>> is Some(x).                         *)
(*   Config   : [manifest_path, output, bin, target, use_cross,            *)
(*               panic_unwind, no_opt_size, no_upx, language]              *)
(*   Metadata : [root : Option<Package>, target_directory]                 *)
(*   Package  : [manifest_path, targets : Seq(Target)]                     *)
(*   Target   : [name, kind, src_path]                                     *)
(*   Ctx      : [bin_name, compile_dir, src_path, binary_path]             *)
(***************************************************************************)
None == <<>>
Some(x) == <<x>>

\* Iterator::nth(n), counted from 0: None past the end.
Nth(seq, n) == IF n + 1 <= Len(seq) THEN Some(seq[n + 1]) ELSE None

Languages == {"Rust", "Python"}

\* Target::is_bin
IsBin(t) == t.kind = "bin"

\* The closure without its is_bin test: any target of the name, of any kind.
SelectsAnyKind(cfg, t) == cfg.bin = None \/ cfg.bin = Some(t.name)

\* The closure of ctx's find: a bin target, of the name --bin gives if any.
Selects(cfg, t) == IsBin(t) /\ (cfg.bin = None \/ cfg.bin = Some(t.name))

\* The last target the closure accepts, where find takes the first.
FindLastBin(cfg, targets) ==
    LET hits == {i \in 1..Len(targets) : Selects(cfg, targets[i])}
    IN IF hits = {} THEN None
       ELSE Some(targets[CHOOSE i \in hits : \A j \in hits : i >= j])

\* Iterator::find over package.targets: the first target the closure accepts.
FindBin(cfg, targets) ==
    LET hits == {i \in 1..Len(targets) : Selects(cfg, targets[i])}
    IN IF hits = {} THEN None
       ELSE Some(targets[CHOOSE i \in hits : \A j \in hits : i <= j])

\* The Ctx that Config::ctx builds from the root package and its chosen bin.
MakeCtx(cfg, md, package, bin) ==
    [bin_name |-> bin.name,
     compile_dir |-> Parent(package.manifest_path),
     src_path |-> bin.src_path,
     binary_path |-> Join(Join(Join(md.target_directory, cfg.target), Release), bin.name)]

\* The build command with the test of no_opt_size the wrong way round.
CompileCommandOptInverted(cfg, c) ==
    [program |-> IF cfg.use_cross THEN Cross ELSE Cargo,
     args |-> <<ArgNightly, ArgBuild, ArgTargetEq \o cfg.target>>
              \o (IF ~cfg.panic_unwind
                  THEN <<ArgBuildStd, ArgBuildStdFeatures, ArgPanicAbort>> ELSE <<>>)
              \o (IF cfg.no_opt_size THEN <<ArgOptLevelS>> ELSE <<>>)
              \o <<ArgCodegenUnits, ArgLto, ArgStrip, ArgRelease, ArgBin, c.bin_name>>,
     current_dir |-> c.compile_dir]

\* The command Config::compile runs, and the directory it runs in.
CompileCommand(cfg, c) ==
    [program |-> IF cfg.use_cross THEN Cross ELSE Cargo,
     args |-> <<ArgNightly, ArgBuild, ArgTargetEq \o cfg.target>>
              \o (IF ~cfg.panic_unwind
                  THEN <<ArgBuildStd, ArgBuildStdFeatures, ArgPanicAbort>> ELSE <<>>)
              \o (IF ~cfg.no_opt_size THEN <<ArgOptLevelS>> ELSE <<>>)
              \o <<ArgCodegenUnits, ArgLto, ArgStrip, ArgRelease, ArgBin, c.bin_name>>,
     current_dir |-> c.compile_dir]

\* The command Config::compress runs (in the process's own directory).
CompressCommand(c) ==
    [program |-> Upx,
     args |-> <<ArgBest, ArgLzma, ArgQuiet, c.binary_path>>,
     current_dir |-> <<>>]

(***************************************************************************)
(* The artifacts of the model, and their digests.                          *)
(***************************************************************************)
ByteVals == {0, 77, 255}

\* The byte strings the build and the compressor may leave.
Artifacts == UNION {[1..n -> ByteVals] : n \in 1..MaxBinLen}

\* The digests of the artifacts, computed once.
Sha256Memo == [b \in Artifacts |-> Sha256Digest(b)] @@ <<>>

\* sha2::Sha256::digest(&bin)
Digest(bytes) == Sha256Memo[bytes]

(***************************************************************************)
(* Config::embed, step by step.                                            *)
(***************************************************************************)
\* The padded encoding for both languages.
EncodeBinaryPadded(language, bin) == Base64Encode(bin)

\* b64.encode(&bin): BASE64_NOPAD for Rust, BASE64 for Python.
EncodeBinary(language, bin) ==
    IF language = "Rust" THEN Base64NoPadEncode(bin) ELSE Base64Encode(bin)

\* &HEXUPPER.encode(&digest)[0..8]
Hash(bin) == SubSeq(HexUpperEncode(Digest(bin)), 1, 8)

\* ".exe" when "windows" occurs anywhere in the target.
ExtAnyWindows(target) == IF Find(target, Windows) # 0 THEN ExeExt ELSE <<>>

\* ".exe" when the third '-'-separated piece of the target is "windows".
Ext(target) == IF Nth(Split(target, "-"), 2) = Some(Windows) THEN ExeExt ELSE <<>>

\* format!("bin{hash}{ext}")
Name(hash, ext) == BinPrefix \o hash \o ext

\* The source text, or the empty text (unwrap_or_default) when it cannot be read.
SourceCodeOrEmpty(read) == IF read = None THEN <<>> ELSE read[1]

\* fs::read_to_string(src_path).unwrap_or("SOURCE CODE NOT FOUND")
SourceCode(read) == IF read = None THEN SourceNotFound ELSE read[1]

\* The three replacen calls with the source text put in first.
SubstituteSourceFirst(tpl, bin_base64, name, source_code) ==
    ReplaceFirst(
        ReplaceFirst(
            ReplaceFirst(tpl, TokenSourceCode, TrimEnd(source_code)),
            TokenBinary, bin_base64),
        TokenName, name)

\* The three replacen calls, in the order of the code.
Substitute(tpl, bin_base64, name, source_code) ==
    ReplaceFirst(
        ReplaceFirst(
            ReplaceFirst(tpl, TokenBinary, bin_base64),
            TokenName, name),
        TokenSourceCode, TrimEnd(source_code))

(***************************************************************************)
(* The state.                                                              *)
(*   config       the parsed command line                                  *)
(*   template     the two template files compiled into the program         *)
(*   env          what the world outside answers: the metadata cargo       *)
(*                reports, what the build and upx do, the source files,    *)
(*                whether the artifact can be read and the output written  *)
(*   pc           the call gen_binary_source or main is about to make      *)
(*   metadata, ctx, code   the locals of gen_binary_source                 *)
(*   emb          the locals of embed                                      *)
(*   binary_file  the file at ctx.binary_path                              *)
(*   output_file  the file at config.output                                *)
(*   cmds         the external commands run so far                         *)
(*   stdout       the lines printed so far                                 *)
(*   trace        the calls made so far, each with its outcome             *)
(*   err          the error main returns                                   *)
(***************************************************************************)
VARIABLES config, template, env, pc, metadata, ctx, code, emb,
          binary_file, output_file, cmds, stdout, trace, err

vars == <<config, template, env, pc, metadata, ctx, code, emb,
          binary_file, output_file, cmds, stdout, trace, err>>

\* A call returned Err: `?` returns it from gen_binary_source and from main.
Abort(stage, msg) ==
    /\ pc' = "failed"
    /\ err' = Some(msg)
    /\ trace' = Append(trace, [stage |-> stage, ok |-> FALSE])

\* A call returned Ok: on to the next one.
Proceed(stage, next) ==
    /\ pc' = next
    /\ err' = err
    /\ trace' = Append(trace, [stage |-> stage, ok |-> TRUE])

\* self.metadata()?
Metadata ==
    /\ pc = "metadata"
    /\ IF env.metadata = None
       THEN Abort("metadata", "cargo metadata failed") /\ metadata' = metadata
       ELSE metadata' = env.metadata /\ Proceed("metadata", "ctx")
    /\ UNCHANGED <<config, template, env, ctx, code, emb, binary_file, output_file,
                   cmds, stdout>>

\* self.ctx(&metadata)?
Ctx ==
    /\ pc = "ctx"
    /\ IF metadata[1].root = None
       THEN Abort("ctx", "Failed to find root package") /\ ctx' = ctx
       ELSE LET package == metadata[1].root[1]
                bin == FindBin(config, package.targets)
            IN IF bin = None
               THEN Abort("ctx", "Failed to find bin") /\ ctx' = ctx
               ELSE /\ ctx' = Some(MakeCtx(config, metadata[1], package, bin[1]))
                    /\ Proceed("ctx", "compile")
    /\ UNCHANGED <<config, template, env, metadata, code, emb, binary_file, output_file,
                   cmds, stdout>>

\* self.compile(&ctx)?
Compile ==
    /\ pc = "compile"
    /\ cmds' = Append(cmds, CompileCommand(config, ctx[1]))
    /\ IF env.build.status = "spawn_error"
       THEN Abort("compile", "io error") /\ binary_file' = binary_file
       ELSE IF env.build.status = "failure"
       THEN Abort("compile", "Build failed") /\ binary_file' = binary_file
       ELSE binary_file' = env.build.artifact /\ Proceed("compile", "built_size")
    /\ UNCHANGED <<config, template, env, metadata, ctx, code, emb, output_file, stdout>>

\* The size read after the build with its error put aside (a size of 0 is
\* printed) instead of returned.
BuiltSizeLenient ==
    /\ pc = "built_size"
    /\ stdout' = Append(stdout, <<"Built binary size",
                                  IF binary_file = None THEN 0 ELSE Len(binary_file[1])>>)
    /\ pc' = IF ~config.no_upx THEN "compress" ELSE "embed"
    /\ err' = err
    /\ trace' = Append(trace, [stage |-> "built_size", ok |-> binary_file # None])
    /\ UNCHANGED <<config, template, env, metadata, ctx, code, emb, binary_file,
                   output_file, cmds>>

\* get_file_size(&ctx.binary_path)? after the build, the line printed, and the
\* test of no_upx.
BuiltSize ==
    /\ pc = "built_size"
    /\ IF binary_file = None
       THEN Abort("built_size", "io error") /\ stdout' = stdout
       ELSE /\ stdout' = Append(stdout, <<"Built binary size", Len(binary_file[1])>>)
            /\ Proceed("built_size", IF ~config.no_upx THEN "compress" ELSE "embed")
    /\ UNCHANGED <<config, template, env, metadata, ctx, code, emb, binary_file,
                   output_file, cmds>>

\* The compression with a failure of upx put aside: the pipeline goes on with
\* the artifact as the build left it.
CompressLenient ==
    /\ pc = "compress"
    /\ cmds' = Append(cmds, CompressCommand(ctx[1]))
    /\ binary_file' = IF env.upx.status = "success" THEN Some(env.upx.artifact)
                      ELSE binary_file
    /\ pc' = "compressed_size"
    /\ err' = err
    /\ trace' = Append(trace, [stage |-> "compress", ok |-> env.upx.status = "success"])
    /\ UNCHANGED <<config, template, env, metadata, ctx, code, emb, output_file, stdout>>

\* self.compress(&ctx)?
Compress ==
    /\ pc = "compress"
    /\ cmds' = Append(cmds, CompressCommand(ctx[1]))
    /\ IF env.upx.status = "spawn_error"
       THEN Abort("compress", "io error") /\ binary_file' = binary_file
       ELSE IF env.upx.status = "failure"
       THEN Abort("compress", "upx failed") /\ binary_file' = binary_file
       ELSE binary_file' = Some(env.upx.artifact) /\ Proceed("compress", "compressed_size")
    /\ UNCHANGED <<config, template, env, metadata, ctx, code, emb, output_file, stdout>>

\* get_file_size(&ctx.binary_path)? after upx, and the line printed.
CompressedSize ==
    /\ pc = "compressed_size"
    /\ IF binary_file = None
       THEN Abort("compressed_size", "io error") /\ stdout' = stdout
       ELSE /\ stdout' = Append(stdout, <<"Compressed binary size", Len(binary_file[1])>>)
            /\ Proceed("compressed_size", "embed")
    /\ UNCHANGED <<config, template, env, metadata, ctx, code, emb, binary_file,
                   output_file, cmds>>

\* The locals e of embed with the file name made of its hash and extension.
WithName(e) == e @@ [name |-> Name(e.hash, e.ext)]

\* The locals of embed once it has read the artifact.
EmbedLocals(cfg, tpl, bin, read_source) ==
    WithName([template |-> tpl,
              bin |-> bin,
              bin_base64 |-> EncodeBinary(cfg.language, bin),
              hash |-> Hash(bin),
              ext |-> Ext(cfg.target),
              source_code |-> SourceCode(read_source)])

\* The text embed returns from its locals e.
Render(e) == Substitute(e.template, e.bin_base64, e.name, e.source_code)

\* self.embed(&ctx)?, and the line printed.
Embed ==
    /\ pc = "embed"
    /\ IF binary_file = None \/ ~env.read_binary_ok
       THEN Abort("embed", "io error") /\ UNCHANGED <<emb, code, stdout>>
       ELSE /\ emb' = Some(EmbedLocals(config, template[config.language], binary_file[1],
                                       env.src_files[ctx[1].src_path]))
            /\ code' = Some(Render(emb'[1]))
            /\ stdout' = Append(stdout, <<"Bundled code size", Len(code'[1])>>)
            /\ Proceed("embed", "save_binary")
    /\ UNCHANGED <<config, template, env, metadata, ctx, binary_file, output_file, cmds>>

\* config.save_binary(src.as_bytes())
SaveBinary ==
    /\ pc = "save_binary"
    /\ IF ~env.write_ok
       THEN Abort("save_binary", "io error") /\ UNCHANGED <<output_file, stdout>>
       ELSE /\ output_file' = code
            /\ stdout' = Append(stdout, <<"Wrote code to", Len(config.output)>>)
            /\ Proceed("save_binary", "done")
    /\ UNCHANGED <<config, template, env, metadata, ctx, code, emb, binary_file, cmds>>

Next ==
    \/ Metadata
    \/ Ctx
    \/ Compile
    \/ BuiltSize
    \/ Compress
    \/ CompressedSize
    \/ Embed
    \/ SaveBinary


(***************************************************************************)
(* The workspaces, command lines and files of the model.                   *)
(***************************************************************************)
\* "app"
NameApp == <<"a", "p", "p">>

\* "tool"
NameTool == <<"t", "o", "o", "l">>

\* "/ws/Cargo.toml"
ManifestPath == <<"/", "w", "s", "/", "C", "a", "r", "g", "o", ".", "t", "o", "m", "l">>

\* "/ws/target"
TargetDirectory == <<"/", "w", "s", "/", "t", "a", "r", "g", "e", "t">>

\* "/ws/src/main.rs"
SrcMainRs ==
    <<"/", "w", "s", "/", "s", "r", "c", "/", "m", "a", "i", "n", ".", "r",
      "s">>

\* "/ws/src/bin/tool.rs"
SrcToolRs ==
    <<"/", "w", "s", "/", "s", "r", "c", "/", "b", "i", "n", "/", "t", "o",
      "o", "l", ".", "r", "s">>

\* "/ws/src/lib.rs"
SrcLibRs == <<"/", "w", "s", "/", "s", "r", "c", "/", "l", "i", "b", ".", "r", "s">>

\* "/ws/examples/tool.rs"
SrcExampleRs ==
    <<"/", "w", "s", "/", "e", "x", "a", "m", "p", "l", "e", "s", "/", "t",
      "o", "o", "l", ".", "r", "s">>

\* "main.rs"
OutputPath == <<"m", "a", "i", "n", ".", "r", "s">>

\* The targets a package of the model may carry: two bins, a lib that shares
\* its name with a bin, and an example that shares its name with the other.
TargetApp == [name |-> NameApp, kind |-> "bin", src_path |-> SrcMainRs]
TargetTool == [name |-> NameTool, kind |-> "bin", src_path |-> SrcToolRs]
TargetLib == [name |-> NameApp, kind |-> "lib", src_path |-> SrcLibRs]
TargetExample == [name |-> NameTool, kind |-> "example", src_path |-> SrcExampleRs]

TargetPool == {TargetApp, TargetTool, TargetLib, TargetExample}

\* The lists of up to MaxTargets distinct targets, in every order.
TargetLists ==
    UNION {{l \in [1..n -> TargetPool] : \A i, j \in 1..n : i # j => l[i] # l[j]}
           : n \in 0..MaxTargets}

PackageOf(targets) == [manifest_path |-> ManifestPath, targets |-> targets]

\* What cargo metadata may answer: an error, a workspace without a root
\* package, or a root package with one of the lists of targets.
MetadataOf(targets) ==
    Some([root |-> Some(PackageOf(targets)), target_directory |-> TargetDirectory])

MetadataNoRoot == Some([root |-> None, target_directory |-> TargetDirectory])

MetadataResults == {None, MetadataNoRoot} \cup {MetadataOf(l) : l \in TargetLists}

\* "x86_64-unknown-linux-gnu"
TripleLinux ==
    <<"x", "8", "6", "_", "6", "4", "-", "u", "n", "k", "n", "o", "w", "n",
      "-", "l", "i", "n", "u", "x", "-", "g", "n", "u">>

\* "x86_64-pc-windows-msvc"
TripleWindows ==
    <<"x", "8", "6", "_", "6", "4", "-", "p", "c", "-", "w", "i", "n", "d",
      "o", "w", "s", "-", "m", "s", "v", "c">>

\* "x86_64-uwp-windows-msvc"
TripleUwp ==
    <<"x", "8", "6", "_", "6", "4", "-", "u", "w", "p", "-", "w", "i", "n",
      "d", "o", "w", "s", "-", "m", "s", "v", "c">>

\* "x86_64-pc-Windows-msvc"
TripleUpper ==
    <<"x", "8", "6", "_", "6", "4", "-", "p", "c", "-", "W", "i", "n", "d",
      "o", "w", "s", "-", "m", "s", "v", "c">>

\* "x86_64-pc-windows10-gnu"
TripleWindows10 ==
    <<"x", "8", "6", "_", "6", "4", "-", "p", "c", "-", "w", "i", "n", "d",
      "o", "w", "s", "1", "0", "-", "g", "n", "u">>

\* "wasm32-wasi"
TripleWasi == <<"w", "a", "s", "m", "3", "2", "-", "w", "a", "s", "i">>

\* "aarch64-apple-darwin"
TripleDarwin ==
    <<"a", "a", "r", "c", "h", "6", "4", "-", "a", "p", "p", "l", "e", "-",
      "d", "a", "r", "w", "i", "n">>

\* "x86_64-windows-gnu"
TripleNoVendor ==
    <<"x", "8", "6", "_", "6", "4", "-", "w", "i", "n", "d", "o", "w", "s",
      "-", "g", "n", "u">>

Triples ==
    {TripleLinux, TripleWindows, TripleUwp, TripleUpper, TripleWindows10,
     TripleWasi, TripleDarwin, TripleNoVendor}

\* "fn main() {}\n"
SourceMain == <<"f", "n", " ", "m", "a", "i", "n", "(", ")", " ", "{", "}", "\n">>

\* "// {{NAME}} {{BINARY}}\nfn main() {}  \n\n"
SourceTokens ==
    <<"/", "/", " ", "{", "{", "N", "A", "M", "E", "}", "}", " ", "{", "{",
      "B", "I", "N", "A", "R", "Y", "}", "}", "\n", "f", "n", " ", "m", "a",
      "i", "n", "(", ")", " ", "{", "}", " ", " ", "\n", "\n">>

\* "{{SOURCE_CODE}}{{SOURCE_CODE}}"
SourceSelf ==
    <<"{", "{", "S", "O", "U", "R", "C", "E", "_", "C", "O", "D", "E", "}",
      "}", "{", "{", "S", "O", "U", "R", "C", "E", "_", "C", "O", "D", "E",
      "}", "}">>

\* " \n	"
SourceBlank == <<" ", "\n", "\t">>

\* "old"
OldOutput == <<"o", "l", "d">>

SrcPaths == {SrcMainRs, SrcToolRs, SrcLibRs, SrcExampleRs}

\* Every source file holds the text read (None: it cannot be read).
SrcFiles(read) == [p \in SrcPaths |-> read]

SourceReads == {None, Some(SourceMain), Some(SourceTokens), Some(SourceSelf), Some(SourceBlank)}

\* Two artifacts for the runs that are not about the artifact's bytes.
ArtifactA == <<77>>
ArtifactB == <<0, 255>>

\* What the build does: it cannot be started, it exits non-zero, or it exits
\* zero leaving `artifact` at the resolved path (None: nothing there).
BuildSuccess(artifact) == [status |-> "success", artifact |-> artifact]
BuildFailures ==
    {[status |-> "spawn_error", artifact |-> None], [status |-> "failure", artifact |-> None]}

\* What upx does: it cannot be started, it exits non-zero, or it exits zero
\* having rewritten the file as `artifact`.
UpxSuccess(artifact) == [status |-> "success", artifact |-> artifact]
UpxFailures ==
    {[status |-> "spawn_error", artifact |-> <<>>], [status |-> "failure", artifact |-> <<>>]}

(***************************************************************************)
(* The templates.  data/binary_runner.rs.txt and data/binary_runner.py.txt *)
(* are not part of the sources at hand: a template is text with exactly    *)
(* one occurrence of each of the three tokens.                             *)
(***************************************************************************)
\* "b"{{BINARY}}" "{{NAME}}" /*{{SOURCE_CODE}}*/\n"
TemplateRs ==
    <<"b", "\"", "{", "{", "B", "I", "N", "A", "R", "Y", "}", "}", "\"", " ",
      "\"", "{", "{", "N", "A", "M", "E", "}", "}", "\"", " ", "/", "*", "{",
      "{", "S", "O", "U", "R", "C", "E", "_", "C", "O", "D", "E", "}", "}",
      "*", "/", "\n">>

\* "# {{SOURCE_CODE}}\nn="{{NAME}}"\nb="{{BINARY}}"\n"
TemplatePy ==
    <<"#", " ", "{", "{", "S", "O", "U", "R", "C", "E", "_", "C", "O", "D",
      "E", "}", "}", "\n", "n", "=", "\"", "{", "{", "N", "A", "M", "E", "}",
      "}", "\"", "\n", "b", "=", "\"", "{", "{", "B", "I", "N", "A", "R", "Y",
      "}", "}", "\"", "\n">>

\* "{{NAME}}|{{SOURCE_CODE}}|{{BINARY}}"
TemplateNameFirst ==
    <<"{", "{", "N", "A", "M", "E", "}", "}", "|", "{", "{", "S", "O", "U",
      "R", "C", "E", "_", "C", "O", "D", "E", "}", "}", "|", "{", "{", "B",
      "I", "N", "A", "R", "Y", "}", "}">>

\* "{{BINARY}};{{SOURCE_CODE}};{{NAME}}"
TemplateSourceMid ==
    <<"{", "{", "B", "I", "N", "A", "R", "Y", "}", "}", ";", "{", "{", "S",
      "O", "U", "R", "C", "E", "_", "C", "O", "D", "E", "}", "}", ";", "{",
      "{", "N", "A", "M", "E", "}", "}">>

Tokens == {TokenBinary, TokenName, TokenSourceCode}

TemplatePairs ==
    {[Rust |-> TemplateRs, Python |-> TemplatePy],
     [Rust |-> TemplateNameFirst, Python |-> TemplateSourceMid],
     [Rust |-> TemplatePy, Python |-> TemplateRs]}

(***************************************************************************)
(* Initial states.                                                         *)
(***************************************************************************)
\* structopt's defaults, with --bin absent.
DefaultConfig ==
    [manifest_path |-> None, output |-> OutputPath, bin |-> None, target |-> TripleLinux,
     use_cross |-> FALSE, panic_unwind |-> FALSE, no_opt_size |-> FALSE, no_upx |-> FALSE,
     language |-> "Rust"]

\* A world in which every step succeeds.
KindEnv ==
    [metadata |-> MetadataOf(<<TargetLib, TargetApp>>),
     build |-> BuildSuccess(Some(ArtifactB)),
     upx |-> UpxSuccess(ArtifactA),
     src_files |-> SrcFiles(Some(SourceMain)),
     read_binary_ok |-> TRUE,
     write_ok |-> TRUE]

\* main has parsed the command line and is about to call gen_binary_source.
InitWith(configs, templates, envs, outputs) ==
    /\ config \in configs
    /\ template \in templates
    /\ env \in envs
    /\ output_file \in outputs
    /\ pc = "metadata"
    /\ metadata = None
    /\ ctx = None
    /\ code = None
    /\ emb = None
    /\ binary_file = None
    /\ cmds = <<>>
    /\ stdout = <<>>
    /\ trace = <<>>
    /\ err = None

\* The pipeline and its failures: every outcome of every external step.
Init ==
    InitWith(
        {[DefaultConfig EXCEPT !.no_upx = u, !.language = l] : u \in BOOLEAN, l \in Languages},
        {[Rust |-> TemplateRs, Python |-> TemplatePy]},
        {[KindEnv EXCEPT !.metadata = m, !.build = b, !.upx = x, !.src_files = SrcFiles(s),
                         !.read_binary_ok = r, !.write_ok = w] :
            m \in {None, MetadataNoRoot, MetadataOf(<<TargetLib>>), MetadataOf(<<TargetApp>>)},
            b \in BuildFailures \cup {BuildSuccess(a) : a \in {None, Some(ArtifactA), Some(ArtifactB)}},
            x \in UpxFailures \cup {UpxSuccess(a) : a \in {ArtifactA, ArtifactB}},
            s \in {None, Some(SourceMain)},
            r \in BOOLEAN,
            w \in BOOLEAN},
        {None, Some(OldOutput)})

Spec == Init /\ [][Next]_vars

\* Resolution: every workspace, with and without --bin.
InitResolve ==
    InitWith(
        {[DefaultConfig EXCEPT !.bin = b, !.target = t] :
            b \in {None, Some(NameApp), Some(NameTool)}, t \in {TripleLinux, TripleWindows}},
        {[Rust |-> TemplateRs, Python |-> TemplatePy]},
        {[KindEnv EXCEPT !.metadata = m] : m \in MetadataResults},
        {None})

SpecResolve == InitResolve /\ [][Next]_vars

\* The build command: every combination of the flags that shape it.
InitCompile ==
    InitWith(
        {[DefaultConfig EXCEPT !.use_cross = c, !.panic_unwind = p, !.no_opt_size = o,
                               !.target = t, !.bin = b] :
            c \in BOOLEAN, p \in BOOLEAN, o \in BOOLEAN,
            t \in {TripleLinux, TripleWindows, TripleWasi}, b \in {None, Some(NameTool)}},
        {[Rust |-> TemplateRs, Python |-> TemplatePy]},
        {[KindEnv EXCEPT !.metadata = m] :
            m \in {MetadataOf(<<TargetApp, TargetTool>>), MetadataOf(<<TargetTool, TargetLib>>)}},
        {None})

SpecCompile == InitCompile /\ [][Next]_vars

\* The substitution: every template and source text.
InitSubstitute ==
    InitWith(
        {[DefaultConfig EXCEPT !.language = l, !.no_upx = u] : l \in Languages, u \in BOOLEAN},
        TemplatePairs,
        {[KindEnv EXCEPT !.src_files = SrcFiles(s), !.build = BuildSuccess(Some(a))] :
            s \in SourceReads, a \in {ArtifactA, ArtifactB}},
        {None})

SpecSubstitute == InitSubstitute /\ [][Next]_vars

\* The payload: every artifact, from the build and from upx, in both dialects.
InitPayload ==
    InitWith(
        {[DefaultConfig EXCEPT !.language = l, !.no_upx = u] : l \in Languages, u \in BOOLEAN},
        {[Rust |-> TemplateRs, Python |-> TemplatePy]},
        {[KindEnv EXCEPT !.build = BuildSuccess(Some(a)), !.upx = UpxSuccess(b)] :
            a \in Artifacts, b \in {ArtifactA, ArtifactB}}
        \cup {[KindEnv EXCEPT !.build = BuildSuccess(Some(a)), !.upx = UpxSuccess(b)] :
            a \in {ArtifactA, ArtifactB}, b \in Artifacts},
        {None})

SpecPayload == InitPayload /\ [][Next]_vars

\* The file name: every target triple and artifact.
InitName ==
    InitWith(
        {[DefaultConfig EXCEPT !.target = t, !.no_upx = u] : t \in Triples, u \in BOOLEAN},
        {[Rust |-> TemplateRs, Python |-> TemplatePy]},
        {[KindEnv EXCEPT !.build = BuildSuccess(Some(a))] : a \in Artifacts},
        {None})

SpecName == InitName /\ [][Next]_vars

(***************************************************************************)
(* What the specification says of the program.                             *)
(***************************************************************************)
\* The number of places at which pat occurs in s.
Occurrences(s, pat) ==
    Cardinality({i \in 1..(Len(s) - Len(pat) + 1) : SubSeq(s, i, i + Len(pat) - 1) = pat})

\* The call `stage` has returned, has returned Ok, has returned Err.
Returned(stage) == \E i \in 1..Len(trace) : trace[i].stage = stage
Ok(stage) == \E i \in 1..Len(trace) : trace[i].stage = stage /\ trace[i].ok
Failed(stage) == \E i \in 1..Len(trace) : trace[i].stage = stage /\ ~trace[i].ok

\* The units of the root package in the order cargo lists them (none when
\* cargo fails or reports no root package).
RootTargets ==
    IF env.metadata = None THEN <<>>
    ELSE IF env.metadata[1].root = None THEN <<>>
    ELSE env.metadata[1].root[1].targets

\* The positions of the units that meet the criteria of resolution: the unit
\* is executable, and has the configured name if one was given.
Matching ==
    {i \in 1..Len(RootTargets) :
        /\ RootTargets[i].kind = "bin"
        /\ (config.bin = None \/ config.bin[1] = RootTargets[i].name)}

\* C1: when the root package has no executable unit (of the configured name,
\* if one is configured), or there is no root package, resolution returns an
\* error, and in that run the build is never invoked, the compressor is never
\* invoked and nothing is written to the output path.
C1_NoUnitNoBuild ==
    (Returned("ctx") /\ Matching = {}) =>
        /\ Failed("ctx")
        /\ ctx = None
        /\ pc = "failed"
        /\ err \in {Some("Failed to find root package"), Some("Failed to find bin")}
        /\ cmds = <<>>
        /\ ~Returned("compile") /\ ~Returned("compress") /\ ~Returned("save_binary")
        /\ code = None
        /\ output_file = None

\* --bin app, where the package has a library app and an executable tool:
\* resolution has failed.
C1_Witness ==
    /\ Failed("ctx")
    /\ config.bin = Some(NameApp)
    /\ RootTargets = <<TargetLib, TargetTool>>

\* C2: resolution succeeds only when exactly one unit of the root package
\* meets the criteria; with two or more it fails as it does with none.
C2_ExactlyOneOrFail == Ok("ctx") => Cardinality(Matching) = 1

\* C10: when more than one unit meets the criteria, resolution does not fail:
\* it takes the first of them in the order of the metadata, and the artifact
\* path is <target directory>/<triple>/release/<name of that unit>, computed
\* while nothing has been built or looked up at that path.
C10_FirstMatch ==
    (Returned("ctx") /\ Cardinality(Matching) > 1) =>
        /\ Ok("ctx")
        /\ ctx # None
        /\ \E i \in Matching :
              /\ \A j \in Matching : i <= j
              /\ ctx[1].bin_name = RootTargets[i].name
              /\ ctx[1].src_path = RootTargets[i].src_path
              /\ ctx[1].binary_path =
                     metadata[1].target_directory \o <<"/">> \o config.target \o <<"/">>
                     \o Release \o <<"/">> \o RootTargets[i].name
        /\ (pc = "compile" => binary_file = None /\ cmds = <<>>)

\* No --bin, and the package lists the executables tool and app in that
\* order: resolution has chosen tool.
C10_Witness ==
    /\ Ok("ctx")
    /\ config.bin = None
    /\ RootTargets = <<TargetTool, TargetApp>>
    /\ ctx[1].bin_name = NameTool

\* The argument a is among args.
Has(args, a) == \E i \in 1..Len(args) : args[i] = a

\* The name of the unit resolution settles on: the first that meets the criteria.
ResolvedName == RootTargets[CHOOSE i \in Matching : \A j \in Matching : i <= j].name

\* C9: whatever the toolchain, panic and size flags, the build command has the
\* three fixed settings, --release, the configured triple and --bin followed
\* by the resolved unit's name, and no other --bin; it has the abort setting
\* and the two flags that rebuild the standard library exactly when
\* panic_unwind is false, the opt-level "s" setting exactly when no_opt_size
\* is false, and it runs cross exactly when use_cross is true, cargo otherwise.
C9_BuildCommand ==
    Returned("compile") =>
        /\ Has(cmds[1].args, ArgCodegenUnits)
        /\ Has(cmds[1].args, ArgLto)
        /\ Has(cmds[1].args, ArgStrip)
        /\ Has(cmds[1].args, ArgRelease)
        /\ Has(cmds[1].args, ArgTargetEq \o config.target)
        /\ \E i \in 1..(Len(cmds[1].args) - 1) :
              /\ cmds[1].args[i] = ArgBin
              /\ cmds[1].args[i + 1] = ResolvedName
              /\ \A j \in 1..Len(cmds[1].args) : cmds[1].args[j] = ArgBin => j = i
        /\ (Has(cmds[1].args, ArgPanicAbort) <=> ~config.panic_unwind)
        /\ (Has(cmds[1].args, ArgBuildStd) <=> ~config.panic_unwind)
        /\ (Has(cmds[1].args, ArgBuildStdFeatures) <=> ~config.panic_unwind)
        /\ (Has(cmds[1].args, ArgOptLevelS) <=> ~config.no_opt_size)
        /\ (cmds[1].program = Cross <=> config.use_cross)
        /\ (cmds[1].program = Cargo <=> ~config.use_cross)

\* cross has been run for --bin tool with unwinding kept and the optimization
\* for size switched off.
C9_Witness ==
    /\ Returned("compile")
    /\ config.use_cross /\ config.panic_unwind /\ config.no_opt_size
    /\ config.bin = Some(NameTool)
    /\ cmds[1].program = Cross
    /\ ~Has(cmds[1].args, ArgOptLevelS)
    /\ ~Has(cmds[1].args, ArgPanicAbort)

\* The calls of gen_binary_source and main in the order the code makes them:
\* the two for the compressor only when the configuration does not skip it.
StageOrder ==
    <<"metadata", "ctx", "compile", "built_size">>
    \o (IF config.no_upx THEN <<>> ELSE <<"compress", "compressed_size">>)
    \o <<"embed", "save_binary">>

\* The output file holds something the run has put there.
Written == output_file \notin {None, Some(OldOutput)}

\* C3: the stages occur in the fixed order metadata, resolve, compile,
\* (compress), embed, write, each at most once; a stage that fails (metadata,
\* resolution, a build that exits non-zero or cannot be started, the size read
\* of the artifact, the compressor, the read of the artifact) is the last one
\* of the run; and the output file is written only after every stage before it
\* has succeeded.
C3_FixedOrderNoRetry ==
    /\ Len(trace) <= Len(StageOrder)
    /\ \A i \in 1..Len(trace) :
          /\ trace[i].stage = StageOrder[i]
          /\ (i < Len(trace) => trace[i].ok)
    /\ (Len(trace) > 0 /\ ~trace[Len(trace)].ok => pc = "failed")
    /\ \A i, j \in 1..Len(cmds) : cmds[i].program = cmds[j].program => i = j
    /\ (Returned("metadata") /\ env.metadata = None => Failed("metadata"))
    /\ (Returned("ctx") /\ Matching = {} => Failed("ctx"))
    /\ (Returned("compile") /\ env.build.status # "success" => Failed("compile"))
    /\ (Returned("built_size") /\ env.build.artifact = None => Failed("built_size"))
    /\ (Returned("compress") /\ env.upx.status # "success" => Failed("compress"))
    /\ (Returned("embed") /\ ~env.read_binary_ok => Failed("embed"))
    /\ (Written =>
          /\ Len(trace) = Len(StageOrder)
          /\ \A i \in 1..Len(trace) : trace[i].ok
          /\ output_file = code)

\* The compressor has failed as the fifth call of the run, which ends there
\* with the old output file in place.
C3_Witness ==
    /\ pc = "failed"
    /\ Len(trace) = 5
    /\ Failed("compress")
    /\ output_file = Some(OldOutput)

\* upx has been run.
UpxInvoked == \E i \in 1..Len(cmds) : cmds[i].program = Upx

\* The run is over.
Terminal == pc \in {"done", "failed"}

\* C4, as stated: the compressor is invoked if and only if the compile stage
\* succeeded and no_upx is false.
C4_CompressIffCompiled ==
    Terminal => (UpxInvoked <=> (Ok("compile") /\ ~config.no_upx))

\* C4, amended: the compressor is invoked if and only if the compile stage
\* succeeded, the size of the built artifact could be read, and no_upx is
\* false; with no_upx set the compressor is never started and the artifact is
\* embedded as the build left it; with no_upx unset a compressor that cannot
\* be started or exits non-zero fails the run, with no embed and no write.
C4_CompressIffBuiltAndRead ==
    /\ Terminal =>
          (UpxInvoked <=> (Ok("compile") /\ Ok("built_size") /\ ~config.no_upx))
    /\ config.no_upx =>
          /\ ~UpxInvoked
          /\ ~Returned("compress")
          /\ (emb # None => Some(emb[1].bin) = env.build.artifact)
    /\ (~config.no_upx /\ Returned("compress") /\ env.upx.status # "success") =>
          /\ pc = "failed"
          /\ Failed("compress")
          /\ ~Returned("embed") /\ ~Returned("save_binary")
          /\ emb = None /\ code = None
          /\ ~Written

\* The build has succeeded with no_upx unset, but nothing is at the resolved
\* path: the size read has failed and upx was never run.
C4_Witness ==
    /\ pc = "failed"
    /\ ~config.no_upx
    /\ Ok("compile")
    /\ Failed("built_size")
    /\ ~UpxInvoked

\* The source file of the resolved unit cannot be read.
SourceUnreadable == ctx # None /\ env.src_files[ctx[1].src_path] = None

\* C7: when the source file of the resolved unit cannot be read, embed still
\* succeeds, with "SOURCE CODE NOT FOUND" in place of the source token; no
\* other failure is tolerated: a run that reaches its end has met no other,
\* and an artifact that cannot be read fails embed, with nothing written.
C7_SourceFallback ==
    /\ (Returned("embed") /\ env.read_binary_ok /\ SourceUnreadable) =>
          /\ Ok("embed")
          /\ code # None
          /\ Occurrences(code[1], SourceNotFound) = 1
          /\ Occurrences(code[1], TokenSourceCode) = 0
    /\ (Returned("embed") /\ ~env.read_binary_ok) =>
          /\ Failed("embed")
          /\ pc = "failed"
          /\ code = None
          /\ ~Returned("save_binary")
          /\ ~Written
    /\ pc = "done" =>
          /\ env.metadata # None /\ Matching # {}
          /\ env.build.status = "success" /\ env.build.artifact # None
          /\ (~config.no_upx => env.upx.status = "success")
          /\ env.read_binary_ok
          /\ env.write_ok

\* A run has ended well although the source file could not be read: the
\* output file holds the text with the fallback in it.
C7_Witness ==
    /\ pc = "done"
    /\ SourceUnreadable
    /\ output_file = code
    /\ Occurrences(code[1], SourceNotFound) = 1

\* The text s without the white space at its end.
Trimmed(s) ==
    SubSeq(s, 1, CHOOSE k \in 0..Len(s) :
                     /\ (k = 0 \/ s[k] \notin WhiteSpace)
                     /\ \A j \in (k + 1)..Len(s) : s[j] \in WhiteSpace)

\* The template tpl with the payload, the name and the source text each put
\* where the template itself has the token for it, all three at once.
Filled(tpl, payload, name, source) ==
    LET out[i \in 1..(Len(tpl) + 1)] ==
            IF i > Len(tpl) THEN <<>>
            ELSE IF i = Find(tpl, TokenBinary)
            THEN payload \o out[i + Len(TokenBinary)]
            ELSE IF i = Find(tpl, TokenName)
            THEN name \o out[i + Len(TokenName)]
            ELSE IF i = Find(tpl, TokenSourceCode)
            THEN source \o out[i + Len(TokenSourceCode)]
            ELSE <<tpl[i]>> \o out[i + 1]
    IN out[1]

\* The text that stands for the source: the file's, or the fallback.
SourceText ==
    IF env.src_files[ctx[1].src_path] = None THEN SourceNotFound
    ELSE env.src_files[ctx[1].src_path][1]

IsSymbol(c) == \E v \in 0..63 : Base64Symbols[v + 1] = c
SymbolValue(c) == CHOOSE v \in 0..63 : Base64Symbols[v + 1] = c

RECURSIVE BytesOfSextets(_)
\* The bytes that 6-bit values spell: three for each four values, then one
\* for two left-over values or two for three.
BytesOfSextets(v) ==
    IF Len(v) < 2 THEN <<>>
    ELSE IF Len(v) = 2 THEN <<v[1] * 4 + v[2] \div 16>>
    ELSE IF Len(v) = 3
    THEN <<v[1] * 4 + v[2] \div 16, (v[2] % 16) * 16 + v[3] \div 4>>
    ELSE <<v[1] * 4 + v[2] \div 16, (v[2] % 16) * 16 + v[3] \div 4,
           (v[3] % 4) * 64 + v[4]>>
         \o BytesOfSextets(SubSeq(v, 5, Len(v)))

\* What a decoder of unpadded base64 makes of text: the bytes, or None when
\* text has another character, an impossible length or stray trailing bits.
DecodeNoPad(text) ==
    IF /\ \A i \in 1..Len(text) : IsSymbol(text[i])
       /\ Len(text) % 4 # 1
       /\ (Len(text) % 4 = 2 => SymbolValue(text[Len(text)]) % 16 = 0)
       /\ (Len(text) % 4 = 3 => SymbolValue(text[Len(text)]) % 4 = 0)
    THEN Some(BytesOfSextets([i \in 1..Len(text) |-> SymbolValue(text[i])]))
    ELSE None

\* The number of "=" at the end of text, up to two.
Padding(text) ==
    IF Len(text) >= 2 /\ text[Len(text)] = "=" /\ text[Len(text) - 1] = "=" THEN 2
    ELSE IF Len(text) >= 1 /\ text[Len(text)] = "=" THEN 1
    ELSE 0

\* What a decoder of padded base64 makes of text: as above, for a text whose
\* length is a multiple of four and whose "=" complete its last group.
DecodePadded(text) ==
    IF /\ Len(text) % 4 = 0
       /\ (Padding(text) > 0 => (Len(text) - Padding(text)) % 4 = 4 - Padding(text))
    THEN DecodeNoPad(SubSeq(text, 1, Len(text) - Padding(text)))
    ELSE None

\* C8: the payload put in place of {{BINARY}} decodes, as padded base64 for
\* Python and as unpadded base64 for Rust, to the bytes at the artifact path
\* when embed read them: those upx left when it ran, those of the build when
\* it was skipped.
C8_PayloadDecodes ==
    Ok("embed") =>
        /\ binary_file = (IF config.no_upx THEN env.build.artifact
                          ELSE Some(env.upx.artifact))
        /\ emb[1].bin = binary_file[1]
        /\ (config.language = "Python" =>
               DecodePadded(emb[1].bin_base64) = Some(binary_file[1]))
        /\ (config.language = "Rust" =>
               DecodeNoPad(emb[1].bin_base64) = Some(binary_file[1]))
        /\ Occurrences(code[1], <<"\"">> \o emb[1].bin_base64 \o <<"\"">>) = 1
        /\ Occurrences(code[1], TokenBinary) = 0

\* Python, with upx having rewritten the artifact as two other bytes: the
\* payload ends in one "=".
C8_Witness ==
    /\ Ok("embed")
    /\ config.language = "Python"
    /\ ~config.no_upx
    /\ env.build.artifact # binary_file
    /\ Len(binary_file[1]) = 2
    /\ Padding(emb[1].bin_base64) = 1

\* The positions of '-' in the triple t.
Dashes(t) == {i \in 1..Len(t) : t[i] = "-"}

\* The text between the second '-' of t and the third, or the end, is "windows".
ThirdIsWindows(t) ==
    \E i, j \in Dashes(t) :
        /\ i < j
        /\ \A k \in Dashes(t) : k < j => k = i
        /\ Len(t) >= j + Len(Windows)
        /\ SubSeq(t, j + 1, j + Len(Windows)) = Windows
        /\ (Len(t) = j + Len(Windows) \/ t[j + Len(Windows) + 1] = "-")

\* The first 8 hexadecimal digits of the SHA-256 digests of three one-byte
\* artifacts, as other implementations of SHA-256 give them.
KnownHashes ==
    (<<0>> :> <<"6", "E", "3", "4", "0", "B", "9", "C">>)
    @@ (<<77>> :> <<"0", "8", "F", "2", "7", "1", "8", "8">>)
    @@ (<<255>> :> <<"A", "8", "1", "0", "0", "A", "E", "6">>)

\* C6: the file name is "bin", then the first 8 characters of the hexadecimal
\* digest of the artifact's bytes, then ".exe" if and only if the triple split
\* on '-' has a third component that is exactly "windows"; the 8 characters
\* depend on the bytes alone.
C6_FileName ==
    Ok("embed") =>
        /\ Len(emb[1].hash) = 8
        /\ \A i \in 1..8 : emb[1].hash[i] \in {HexSymbols[k] : k \in 1..16}
        /\ emb[1].hash = SubSeq(HexUpperEncode(Sha256Memo[binary_file[1]]), 1, 8)
        /\ (binary_file[1] \in DOMAIN KnownHashes =>
               emb[1].hash = KnownHashes[binary_file[1]])
        /\ emb[1].name = BinPrefix \o emb[1].hash
                         \o (IF ThirdIsWindows(config.target) THEN ExeExt ELSE <<>>)
        /\ Occurrences(code[1], <<"\"">> \o emb[1].name \o <<"\"">>) = 1

\* x86_64-pc-windows-msvc: the name of the file ends in ".exe".
C6_Witness ==
    /\ Ok("embed")
    /\ config.target = TripleWindows
    /\ emb[1].name = BinPrefix \o emb[1].hash \o ExeExt

=============================================================================
